---- MODULE Spec2Model ----
(***************************************************************************)
(* Model of src/components/TheExcelToText.vue: the spreadsheet-to-text     *)
(* converter (convertExcelToText) and the component's session state with   *)
(* its handlers (handleFileUpload, copyToClipboard, downloadTextFile,      *)
(* clearResult).                                                           *)
(*                                                                         *)
(* Strings that the code inspects character by character (file names, the  *)
(* converted text) are sequences of one-character strings.  The messages   *)
(* are only stored and shown, so they are plain strings; the Chinese       *)
(* literals of the source are written in ASCII, the original in a comment. *)
(***************************************************************************)
EXTENDS Integers, Sequences, FiniteSets, TLC

VARIABLES
    fileName,       \* fileName.value (line 7)
    convertedText,  \* convertedText.value (line 5)
    errorMessage,   \* errorMessage.value (line 8)
    isProcessing,   \* isProcessing.value (line 6)
    inputValue,     \* fileInput.value.value: the file the <input> holds (lines 4, 153-160)
    inflight,       \* handleFileUpload calls suspended at the await of line 22
    nextId,         \* number of handleFileUpload calls started so far
    pendingWrites,  \* some copyToClipboard call is suspended at the await of line 122
    effect,         \* what the last step asked of the platform (download, clipboard write)
    errorStale,     \* history: errorMessage was last written by a failed conversion
                    \* that completed while another conversion was still in flight
    clearedResult   \* history: clearResult emptied a displayed result and no file
                    \* has been selected since

vars == <<fileName, convertedText, errorMessage, isProcessing, inputValue,
          inflight, nextId, pendingWrites, effect, errorStale, clearedResult>>

(***************************************************************************)
(* Bounds of the model.                                                    *)
(***************************************************************************)
MaxSelections == 2      \* file selections in one behaviour

(***************************************************************************)
(* Messages.                                                               *)
(***************************************************************************)
\* line 48: '无法读取文件数据'
NoDataMessage == "cannot read file data"
\* line 87: '读取文件时出错'
ReadErrorMessage == "error reading file"
\* line 31: '处理文件时出错', used when the thrown value is not an Error
FallbackMessage == "error processing file"
\* line 125: '复制到剪贴板失败'
CopyFailedMessage == "copy to clipboard failed"
\* line 50: the message of the Error XLSX.read throws for bytes it cannot parse
ParseErrorMessage == "unsupported file"

(***************************************************************************)
(* Cells, as XLSX.utils.sheet_to_json(ws, {header: 1}) hands them out.     *)
(***************************************************************************)
Undefined == [t |-> "undefined"]
Null == [t |-> "null"]
Str(s) == [t |-> "string", v |-> s]
Num(n) == [t |-> "number", v |-> n]
Bool(b) == [t |-> "boolean", v |-> b]

Digits == <<"0", "1", "2", "3", "4", "5", "6", "7", "8", "9">>

RECURSIVE NatToString(_)
\* String(n) for a natural number n
NatToString(n) ==
    IF n < 10 THEN <<Digits[n + 1]>>
    ELSE NatToString(n \div 10) \o <<Digits[(n % 10) + 1]>>

\* String(cell), line 70
StringOf(cell) ==
    CASE cell.t = "string" -> cell.v
      [] cell.t = "number" -> NatToString(cell.v)
      [] cell.t = "boolean" ->
            IF cell.v THEN <<"t", "r", "u", "e">> ELSE <<"f", "a", "l", "s", "e">>

\* a map callback without the test of line 67: String(null), String(undefined)
CellTextStringified(cell) ==
    CASE cell.t = "undefined" -> <<"u", "n", "d", "e", "f", "i", "n", "e", "d">>
      [] cell.t = "null" -> <<"n", "u", "l", "l">>
      [] OTHER -> StringOf(cell)

\* the map callback, lines 65-71
CellText(cell) ==
    IF cell.t = "undefined" \/ cell.t = "null" THEN <<>> ELSE StringOf(cell)

\* a predicate that tests the cell's truthiness: row.some(cell => cell)
CellNonEmptyTruthy(cell) ==
    /\ cell.t # "undefined"
    /\ cell.t # "null"
    /\ ~(cell.t = "string" /\ cell.v = <<>>)
    /\ ~(cell.t = "number" /\ cell.v = 0)
    /\ ~(cell.t = "boolean" /\ cell.v = FALSE)

\* the predicate of row.some, line 64
CellNonEmpty(cell) ==
    /\ cell.t # "undefined"
    /\ cell.t # "null"
    /\ ~(cell.t = "string" /\ cell.v = <<>>)

\* line 64
RowKept(row) == \E i \in 1..Len(row) : CellNonEmpty(row[i])

RECURSIVE Join(_, _)
\* Array.prototype.join, line 71
Join(parts, sep) ==
    IF Len(parts) = 0 THEN <<>>
    ELSE IF Len(parts) = 1 THEN parts[1]
    ELSE parts[1] \o sep \o Join(Tail(parts), sep)

\* lines 65-72: one kept row as a line
RowLine(row) ==
    Join([i \in 1..Len(row) |-> CellText(row[i])], <<"\t">>) \o <<"\n">>

RECURSIVE RowsText(_)
\* jsonData.forEach, lines 62-74
RowsText(rows) ==
    IF Len(rows) = 0 THEN <<>>
    ELSE (IF RowKept(rows[1]) THEN RowLine(rows[1]) ELSE <<>>) \o RowsText(Tail(rows))

\* line 59
HeaderLine(sheetName) ==
    <<"=", "=", "=", "=", "=", " ">> \o sheetName
        \o <<" ", "=", "=", "=", "=", "=", "\n">>

\* a sheet's block without line 76
SheetBlockNoBlank(sheet) == HeaderLine(sheet.name) \o RowsText(sheet.rows)

\* lines 55-76: one sheet's block
SheetBlock(sheet) == HeaderLine(sheet.name) \o RowsText(sheet.rows) \o <<"\n">>

RECURSIVE WorkbookText(_)
\* workbook.SheetNames.forEach, lines 51-77
WorkbookText(sheets) ==
    IF Len(sheets) = 0 THEN <<>>
    ELSE SheetBlock(sheets[1]) \o WorkbookText(Tail(sheets))

(***************************************************************************)
(* The files a user can select: File.name and what reading and parsing     *)
(* the bytes gives.  kind "workbook": XLSX.read returns the sheets;        *)
(* "corrupt": XLSX.read throws an Error; "throws": a value that is not an  *)
(* Error is thrown in onload; "nodata": onload fires without a result;     *)
(* "unreadable": the FileReader fires onerror.                             *)
(***************************************************************************)
ReportFile ==
    [name |-> <<"R", "e", "p", "o", "r", "t", ".", "x", "l", "s", "x">>,
     kind |-> "workbook",
     sheets |-> << [name |-> <<"S">>, rows |-> << <<Str(<<"A">>), Str(<<"B">>)>> >>] >>]

TrailingDotFile ==
    [name |-> <<"d", "a", "t", "a", ".">>,
     kind |-> "workbook",
     sheets |-> << [name |-> <<"S", "h", "e", "e", "t", "1">>,
                    rows |-> << <<Str(<<"a">>), Str(<<"b">>)>>, <<>>,
                                <<Str(<<>>), Null>> >>] >>]

DottedFile ==
    [name |-> <<"a", ".", "b", ".", "c">>, kind |-> "unreadable", sheets |-> <<>>]

HiddenFile ==
    [name |-> <<".", "e", "n", "v">>, kind |-> "corrupt", sheets |-> <<>>]

PlainFile ==
    [name |-> <<"R", "E", "A", "D", "M", "E">>, kind |-> "throws", sheets |-> <<>>]

EmptyFile ==
    [name |-> <<"e", ".", "c", "s", "v">>, kind |-> "nodata", sheets |-> <<>>]

Files == {ReportFile, TrailingDotFile, DottedFile, HiddenFile, PlainFile, EmptyFile}

(***************************************************************************)
(* downloadTextFile's name for the download.                               *)
(***************************************************************************)
\* the regular expression /\.[^/.]+$/ matches s from position i to the end
ExtensionAt(s, i) ==
    /\ s[i] = "."
    /\ i < Len(s)
    /\ \A j \in (i + 1)..Len(s) : s[j] # "/" /\ s[j] # "."

\* fileName.value.replace(/\.[^/.]+$/, ''), line 104: the leftmost match is removed
BaseName(s) ==
    IF \E i \in 1..Len(s) : ExtensionAt(s, i)
    THEN LET i == CHOOSE k \in 1..Len(s) :
                     /\ ExtensionAt(s, k)
                     /\ \A m \in 1..(k - 1) : ~ExtensionAt(s, m)
         IN  SubSeq(s, 1, i - 1)
    ELSE s

\* `${baseName}.txt`, line 105
DownloadName(s) == BaseName(s) \o <<".", "t", "x", "t">>

(***************************************************************************)
(* What a step asks of the platform.                                       *)
(***************************************************************************)
NoEffect == [kind |-> "none", name |-> <<>>, content |-> <<>>]
\* lines 99-109: a Blob of the text, clicked as a download of that name
DownloadEffect(name, content) ==
    [kind |-> "download", name |-> name, content |-> content]
\* line 122: navigator.clipboard.writeText(text)
ClipboardEffect(content) ==
    [kind |-> "clipboardWrite", name |-> <<>>, content |-> content]

Init ==
    /\ fileName = <<>>
    /\ convertedText = <<>>
    /\ errorMessage = ""
    /\ isProcessing = FALSE
    /\ inputValue = <<>>
    /\ inflight = {}
    /\ nextId = 0
    /\ pendingWrites = FALSE
    /\ effect = NoEffect
    /\ errorStale = FALSE
    /\ clearedResult = FALSE

(***************************************************************************)
(* handleFileUpload, lines 11-37.                                          *)
(***************************************************************************)
\* a handler that resets the session before looking at the file list
HandleFileUploadNoFileResetting ==
    /\ inputValue # <<>>
    /\ inputValue' = <<>>
    /\ fileName' = <<>>
    /\ errorMessage' = ""
    /\ effect' = NoEffect
    /\ UNCHANGED <<convertedText, isProcessing, inflight, nextId, pendingWrites,
                   errorStale, clearedResult>>

\* lines 12-14: a change event without a file (the picker emptied the input)
HandleFileUploadNoFile ==
    /\ inputValue # <<>>
    /\ inputValue' = <<>>
    /\ effect' = NoEffect
    /\ UNCHANGED <<fileName, convertedText, errorMessage, isProcessing,
                   inflight, nextId, pendingWrites, errorStale, clearedResult>>

\* a handler that forgets line 18
ErrorOnSelectKept(old) == old

\* line 18
ErrorOnSelect(old) == ""

\* a handler that forgets line 21
ProcessingOnSelectKept(old) == old

\* line 21
ProcessingOnSelect(old) == TRUE

\* a handler that refuses a selection while isProcessing is set
HandleFileUploadGated(f) ==
    /\ ~isProcessing
    /\ nextId < MaxSelections
    /\ inputValue # f.name
    /\ inputValue' = f.name
    /\ fileName' = f.name
    /\ errorMessage' = ""
    /\ isProcessing' = TRUE
    /\ inflight' = inflight \cup {[id |-> nextId + 1, file |-> f]}
    /\ nextId' = nextId + 1
    /\ effect' = NoEffect
    /\ errorStale' = FALSE
    /\ clearedResult' = FALSE
    /\ UNCHANGED <<convertedText, pendingWrites>>

\* lines 16-22, up to the await: the <input> fires change when its file changes
HandleFileUpload(f) ==
    /\ nextId < MaxSelections
    /\ inputValue # f.name
    /\ inputValue' = f.name
    /\ fileName' = f.name
    /\ errorMessage' = ErrorOnSelect(errorMessage)
    /\ isProcessing' = ProcessingOnSelect(isProcessing)
    /\ inflight' = inflight \cup {[id |-> nextId + 1, file |-> f]}
    /\ nextId' = nextId + 1
    /\ effect' = NoEffect
    /\ errorStale' = FALSE
    /\ clearedResult' = FALSE
    /\ UNCHANGED <<convertedText, pendingWrites>>

\* a handler without the finally block
ProcessingOnFinallyKept(old) == old

\* line 35, the finally block
ProcessingOnFinally(old) == FALSE

\* line 23 and the error left as it is on success
ErrorOnSuccess(old) == old

\* a handler that appends the result to the displayed text
ResolvedAppending(c, text) ==
    /\ convertedText' = convertedText \o text
    /\ inputValue' = <<>>
    /\ errorMessage' = errorMessage
    /\ isProcessing' = FALSE
    /\ inflight' = inflight \ {c}
    /\ effect' = NoEffect
    /\ UNCHANGED <<fileName, nextId, pendingWrites, errorStale, clearedResult>>

\* lines 23-28 and 35: the await returned text
Resolved(c, text) ==
    /\ convertedText' = text
    /\ inputValue' = <<>>
    /\ errorMessage' = ErrorOnSuccess(errorMessage)
    /\ isProcessing' = ProcessingOnFinally(isProcessing)
    /\ inflight' = inflight \ {c}
    /\ effect' = NoEffect
    /\ UNCHANGED <<fileName, nextId, pendingWrites, errorStale, clearedResult>>

\* a catch block that forgets line 32
TextOnFailureKept(old) == old

\* line 32
TextOnFailure(old) == <<>>

\* lines 30-36: the await threw; message is what line 31 computes
Rejected(c, message) ==
    /\ errorMessage' = message
    /\ convertedText' = TextOnFailure(convertedText)
    /\ isProcessing' = ProcessingOnFinally(isProcessing)
    /\ inflight' = inflight \ {c}
    /\ effect' = NoEffect
    /\ errorStale' = (inflight \ {c} # {})
    /\ UNCHANGED <<fileName, inputValue, nextId, pendingWrites, clearedResult>>

(***************************************************************************)
(* convertExcelToText, lines 40-92: the outcomes of the FileReader.        *)
(***************************************************************************)
\* lines 86-88: reader.onerror
ReaderError(c) ==
    /\ c \in inflight
    /\ c.file.kind = "unreadable"
    /\ Rejected(c, ReadErrorMessage)

\* lines 46-48: onload without data
ReaderLoadNoData(c) ==
    /\ c \in inflight
    /\ c.file.kind = "nodata"
    /\ Rejected(c, NoDataMessage)

\* an onload without the try/catch of lines 45 and 81-83: what XLSX.read
\* throws escapes the handler and the promise is never settled
ReaderLoadUncaught(c) ==
    /\ c \in inflight
    /\ c.file.kind = "workbook"
    /\ Resolved(c, WorkbookText(c.file.sheets))

\* lines 50-83: onload with data; XLSX.read and the conversion
ReaderLoad(c) ==
    /\ c \in inflight
    /\ c.file.kind \in {"workbook", "corrupt", "throws"}
    /\ CASE c.file.kind = "workbook" -> Resolved(c, WorkbookText(c.file.sheets))
         [] c.file.kind = "corrupt" -> Rejected(c, ParseErrorMessage)
         [] c.file.kind = "throws" -> Rejected(c, FallbackMessage)

\* the conversion c leaves the await of line 22
Complete(c) == ReaderError(c) \/ ReaderLoadNoData(c) \/ ReaderLoad(c)

(***************************************************************************)
(* downloadTextFile, lines 95-114.                                         *)
(***************************************************************************)
\* lines 96-97
DownloadNothing ==
    /\ convertedText = <<>>
    /\ effect' = NoEffect
    /\ UNCHANGED <<fileName, convertedText, errorMessage, isProcessing, inputValue,
                   inflight, nextId, pendingWrites, errorStale, clearedResult>>

\* lines 99-113
DownloadTextFile ==
    /\ convertedText # <<>>
    /\ effect' = DownloadEffect(DownloadName(fileName), convertedText)
    /\ UNCHANGED <<fileName, convertedText, errorMessage, isProcessing, inputValue,
                   inflight, nextId, pendingWrites, errorStale, clearedResult>>

(***************************************************************************)
(* copyToClipboard, lines 117-127.                                         *)
(***************************************************************************)
\* lines 118-119
CopyNothing ==
    /\ convertedText = <<>>
    /\ effect' = NoEffect
    /\ UNCHANGED <<fileName, convertedText, errorMessage, isProcessing, inputValue,
                   inflight, nextId, pendingWrites, errorStale, clearedResult>>

\* lines 121-122, up to the await
CopyToClipboard ==
    /\ convertedText # <<>>
    /\ pendingWrites' = TRUE
    /\ effect' = ClipboardEffect(convertedText)
    /\ UNCHANGED <<fileName, convertedText, errorMessage, isProcessing, inputValue,
                   inflight, nextId, errorStale, clearedResult>>

\* line 123: a write succeeded; other writes may still be pending
WriteResolved ==
    /\ pendingWrites
    /\ pendingWrites' \in BOOLEAN
    /\ effect' = NoEffect
    /\ UNCHANGED <<fileName, convertedText, errorMessage, isProcessing, inputValue,
                   inflight, nextId, errorStale, clearedResult>>

\* a catch block that swallows the failure
ErrorOnCopyFailureKept(old) == old

\* line 125
ErrorOnCopyFailure(old) == CopyFailedMessage

\* lines 124-126: a write failed; other writes may still be pending
WriteRejected ==
    /\ pendingWrites
    /\ pendingWrites' \in BOOLEAN
    /\ errorMessage' = ErrorOnCopyFailure(errorMessage)
    /\ effect' = NoEffect
    /\ errorStale' = FALSE
    /\ UNCHANGED <<fileName, convertedText, isProcessing, inputValue,
                   inflight, nextId, clearedResult>>

(***************************************************************************)
(* clearResult, lines 130-134.                                             *)
(***************************************************************************)
\* a clearResult that forgets line 132
FileNameOnClearKept(old) == old

\* line 132
FileNameOnClear(old) == <<>>

ClearResult ==
    /\ convertedText' = <<>>
    /\ fileName' = FileNameOnClear(fileName)
    /\ errorMessage' = ""
    /\ effect' = NoEffect
    /\ errorStale' = FALSE
    /\ clearedResult' = (clearedResult \/ convertedText # <<>>)
    /\ UNCHANGED <<isProcessing, inputValue, inflight, nextId, pendingWrites>>

Next ==
    \/ HandleFileUploadNoFile
    \/ \E f \in Files : HandleFileUpload(f)
    \/ \E c \in inflight : ReaderError(c)
    \/ \E c \in inflight : ReaderLoadNoData(c)
    \/ \E c \in inflight : ReaderLoad(c)
    \/ DownloadNothing
    \/ DownloadTextFile
    \/ CopyNothing
    \/ CopyToClipboard
    \/ WriteResolved
    \/ WriteRejected
    \/ ClearResult

Spec == Init /\ [][Next]_vars

(***************************************************************************)
(* The conversion on its own: a workbook drawn from bounded sets has just   *)
(* been selected, and the FileReader's onload converts it.                  *)
(***************************************************************************)
MaxSheets == 2    \* sheets in a drawn workbook
MaxRows == 2      \* rows in a drawn sheet
MaxCols == 2      \* cells in a drawn row

\* the sequences over S of length at most n
SeqsUpTo(S, n) == UNION {[1..k -> S] : k \in 0..n}

\* a cell whose string has the form of a header line
HeaderLikeCell ==
    Str(<<"=", "=", "=", "=", "=", " ", "S", " ", "=", "=", "=", "=", "=">>)

\* the cell values sheet_to_json can hand out, line 56
Cells ==
    {Undefined, Null, Str(<<>>), Str(<<"a">>), Str(<<" ">>), Num(0), Num(10),
     Bool(FALSE), Bool(TRUE), HeaderLikeCell}

\* workbook.SheetNames, line 54
SheetNames == {<<"S">>, <<"T">>}

\* one-sheet workbooks with a single row of up to MaxCols cells
OneRowWorkbooks ==
    {<< [name |-> <<"S">>, rows |-> <<row>>] >> : row \in SeqsUpTo(Cells, MaxCols)}

\* rows to build sheets of several rows from: empty, blank, and rows with content
RowSamples ==
    { <<>>,
      <<Null, Str(<<>>)>>,
      <<Str(<<"a">>), Str(<<"b">>)>>,
      <<Num(0)>>,
      <<Undefined, Str(<<" ">>)>> }

\* one-sheet workbooks of up to MaxRows rows
OneSheetWorkbooks ==
    {<< [name |-> <<"T">>, rows |-> rows] >> : rows \in SeqsUpTo(RowSamples, MaxRows)}

\* sheets to build workbooks of several sheets from
SheetSamples ==
    [name : SheetNames,
     rows : {<<>>, << <<Str(<<"a">>)>> >>, << <<HeaderLikeCell>> >>}]

\* workbooks of up to MaxSheets sheets
ManySheetWorkbooks == SeqsUpTo(SheetSamples, MaxSheets)

\* what XLSX.read (line 50) and sheet_to_json (line 56) return for the drawn files
Workbooks ==
    OneRowWorkbooks \cup OneSheetWorkbooks \cup ManySheetWorkbooks
        \cup {TrailingDotFile.sheets}

\* target.files[0] for a drawn workbook
WorkbookFile(sheets) ==
    [name |-> <<"w", ".", "x", "l", "s", "x">>, kind |-> "workbook", sheets |-> sheets]

\* lines 16-22 ran for a drawn workbook on the freshly mounted component
ConvInit ==
    \E sheets \in Workbooks :
        /\ fileName = WorkbookFile(sheets).name
        /\ inputValue = WorkbookFile(sheets).name
        /\ convertedText = <<>>
        /\ errorMessage = ""
        /\ isProcessing = TRUE
        /\ inflight = {[id |-> 1, file |-> WorkbookFile(sheets)]}
        /\ nextId = 1
        /\ pendingWrites = FALSE
        /\ effect = NoEffect
        /\ errorStale = FALSE
        /\ clearedResult = FALSE

\* reader.onload converts the workbook and the handler stores the text
ConvNext == \E c \in inflight : ReaderLoad(c)

ConvSpec == ConvInit /\ [][ConvNext]_vars

\* the i-th handleFileUpload call is suspended at its await
InFlight(i) == \E c \in inflight : c.id = i

\* the i-th handleFileUpload call leaves its await
CompleteCall(i) == \E c \in inflight : c.id = i /\ Complete(c)

\* the FileReader of every started read fires onload or onerror
FairSpec == Spec /\ \A i \in 1..MaxSelections : WF_vars(CompleteCall(i))

(***************************************************************************)
(* Properties.                                                             *)
(***************************************************************************)
\* the four fields of the session state
session == <<fileName, convertedText, errorMessage, isProcessing>>

\* the step is the successful completion of conversion c
Succeeds(c) == c.file.kind = "workbook" /\ ReaderLoad(c)

\* the step is a failed completion of conversion c
Fails(c) == c.file.kind # "workbook" /\ Complete(c)

\* the message of the failure conversion c ends with
FailureMessage(c) ==
    CASE c.file.kind = "unreadable" -> ReadErrorMessage
      [] c.file.kind = "nodata" -> NoDataMessage
      [] c.file.kind = "corrupt" -> ParseErrorMessage
      [] c.file.kind = "throws" -> FallbackMessage

\* C1: right after a conversion completes successfully, text is that
\* conversion's result and error is empty, whatever ran while it was in flight.
C1_SuccessStoresTextAndNoError ==
    [][\A c \in inflight :
          Succeeds(c) =>
              /\ convertedText' = WorkbookText(c.file.sheets)
              /\ errorMessage' = ""]_vars

\* C2 as stated: with no conversion in flight, text and error are never both
\* non-empty.
C2_TextAndErrorExclusive ==
    inflight = {} => ~(convertedText # <<>> /\ errorMessage # "")

\* C2 amended: with no conversion in flight, text and error are both non-empty
\* only when error is the copy-failed message or was left by a failed conversion
\* that completed while another conversion was still in flight.
C2_ExclusiveButForCopyAndOverlap ==
    (inflight = {} /\ convertedText # <<>> /\ errorMessage # "")
        => (errorMessage = CopyFailedMessage \/ errorStale)

\* a failed copy left the result and the error side by side, nothing in flight
C2_Witness ==
    /\ inflight = {}
    /\ ~pendingWrites
    /\ convertedText # <<>>
    /\ errorMessage = CopyFailedMessage

\* C3: right after a conversion fails, text is empty, error is the failure's
\* message and isProcessing is false.
C3_FailureClearsTextAndStoresError ==
    [][\A c \in inflight :
          Fails(c) =>
              /\ convertedText' = <<>>
              /\ errorMessage' = FailureMessage(c)
              /\ isProcessing' = FALSE]_vars

\* the second selection failed to parse after the first had succeeded: the
\* result of the first is gone
C3_Witness ==
    /\ nextId = 2
    /\ inflight = {}
    /\ fileName = HiddenFile.name
    /\ convertedText = <<>>
    /\ errorMessage = ParseErrorMessage
    /\ ~isProcessing

\* C4: isProcessing is true only while some conversion is in flight.
C4_ProcessingImpliesInFlight == isProcessing => inflight # {}

\* a conversion is in flight and the flag is up
C4_Witness == isProcessing /\ Cardinality(inflight) = 2

\* C5: every started conversion completes, and the step that completes it sets
\* isProcessing to false.
C5_EveryConversionCompletes ==
    /\ \A i \in 1..MaxSelections : InFlight(i) ~> ~InFlight(i)
    /\ [][\A c \in inflight : c \notin inflight' => isProcessing' = FALSE]_vars

\* every started conversion has completed
C5_Witness == nextId = MaxSelections /\ inflight = {} /\ ~isProcessing

\* C6 as stated: right after the synchronous part of a file selection, text
\* and error are both empty.
C6_SelectionResetsTextAndError ==
    [][\A f \in Files :
          HandleFileUpload(f) => convertedText' = <<>> /\ errorMessage' = ""]_vars

\* C6 amended: right after the synchronous part of a file selection, error is
\* empty, fileName is the selected file's name and isProcessing is true; text is
\* left as it was, so an earlier result stays held until the conversion completes.
C6_SelectionResetsErrorKeepsText ==
    [][\A f \in Files :
          HandleFileUpload(f) =>
              /\ errorMessage' = ""
              /\ fileName' = f.name
              /\ isProcessing' = TRUE
              /\ convertedText' = convertedText]_vars

\* the second file is being converted while the first file's result is held
C6_Witness ==
    /\ inflight = {[id |-> 2, file |-> HiddenFile]}
    /\ fileName = HiddenFile.name
    /\ convertedText = WorkbookText(ReportFile.sheets)
    /\ errorMessage = ""
    /\ isProcessing

\* C7: copyToClipboard with empty text asks for no write and changes nothing;
\* with text it asks for a write of exactly that text and changes no session
\* field; a failed write sets error to the copy-failed message and changes no
\* other session field; a successful write changes no session field.
C7_CopyToClipboardEffects ==
    [][/\ CopyNothing => effect' = NoEffect /\ UNCHANGED session
       /\ CopyToClipboard =>
              effect' = ClipboardEffect(convertedText) /\ UNCHANGED session
       /\ WriteRejected =>
              /\ errorMessage' = CopyFailedMessage
              /\ UNCHANGED <<convertedText, fileName, isProcessing>>
       /\ WriteResolved => UNCHANGED session]_vars

\* a write of the held text failed: the message is shown beside the text
C7_Witness ==
    /\ convertedText = WorkbookText(ReportFile.sheets)
    /\ fileName = ReportFile.name
    /\ errorMessage = CopyFailedMessage
    /\ effect = NoEffect

\* the position of the last "." of s, 0 when s holds none
LastDot(s) ==
    IF \E i \in 1..Len(s) : s[i] = "."
    THEN CHOOSE i \in 1..Len(s) : s[i] = "." /\ \A j \in (i + 1)..Len(s) : s[j] # "."
    ELSE 0

\* s without its extension: the last "." and what follows it
WithoutExtension(s) == IF LastDot(s) = 0 THEN s ELSE SubSeq(s, 1, LastDot(s) - 1)

\* C8: downloadTextFile with empty text downloads nothing and changes nothing;
\* with text it downloads exactly that text under fileName with its extension
\* stripped and ".txt" appended, and changes no session field.
C8_DownloadNameAndContent ==
    [][/\ DownloadNothing => effect' = NoEffect /\ UNCHANGED session
       /\ DownloadTextFile =>
              /\ effect' = DownloadEffect(WithoutExtension(fileName)
                                              \o <<".", "t", "x", "t">>,
                                          convertedText)
              /\ UNCHANGED session]_vars

\* C9: whenever text is non-empty, fileName is the name of the file that text
\* was converted from.
C9_FileNameIsSourceOfText ==
    convertedText # <<>> =>
        \E f \in Files :
            /\ f.kind = "workbook"
            /\ f.name = fileName
            /\ WorkbookText(f.sheets) = convertedText

\* C10: clearResult empties text, fileName and error and leaves isProcessing
\* and the conversions in flight as they were.
C10_ClearResultEffects ==
    [][ClearResult =>
          /\ convertedText' = <<>>
          /\ fileName' = <<>>
          /\ errorMessage' = ""
          /\ isProcessing' = isProcessing
          /\ inflight' = inflight]_vars

\* clearResult ran while a conversion was in flight
C10_Witness ==
    /\ inflight # {}
    /\ isProcessing
    /\ fileName = <<>>
    /\ convertedText = <<>>
    /\ errorMessage = ""

\* C11: after clearResult emptied a displayed result, and until a file is
\* selected, text stays empty and no download or clipboard write is produced,
\* also when a conversion was in flight at the time of the clear.
C11_ClearedStaysEmpty ==
    clearedResult => (convertedText = <<>> /\ effect = NoEffect)

\* C12: every completion of a conversion, successful or failed, leaves the file
\* input empty, so that the same file can be selected again.
C12_InputResetAfterCompletion ==
    [][\A c \in inflight : Complete(c) => inputValue' = <<>>]_vars

\* C17 as stated: whenever text is non-empty (the result section with the clear
\* button is rendered), isProcessing is false.
C17_ResultShownImpliesIdle == convertedText # <<>> => ~isProcessing

\* C17 amended: whenever text is non-empty, isProcessing is false unless the
\* most recently selected file's conversion is still in flight.
C17_ResultShownIdleButForLatest ==
    (convertedText # <<>> /\ isProcessing) => InFlight(nextId)

\* an earlier result is displayed while the file selected after it is converted
C17_Witness ==
    /\ convertedText = WorkbookText(ReportFile.sheets)
    /\ isProcessing
    /\ inflight = {[id |-> 2, file |-> TrailingDotFile]}

\* C18: a file selection is accepted whatever isProcessing is (as long as the
\* input's file changes), and a successful completion stores its result without
\* looking at fileName or at the conversions started after it.
C18_SelectionNotGatedResultsOverwrite ==
    /\ [](\A f \in Files :
             (isProcessing /\ nextId < MaxSelections /\ inputValue # f.name)
                 => ENABLED HandleFileUpload(f))
    /\ [][\A c \in inflight :
             Succeeds(c) =>
                 /\ convertedText' = WorkbookText(c.file.sheets)
                 /\ fileName' = fileName]_vars

\* both conversions succeeded, the later-selected file first: text is the
\* earlier file's result under the later file's name
C18_Witness ==
    /\ nextId = 2
    /\ inflight = {}
    /\ inputValue = <<>>
    /\ fileName = TrailingDotFile.name
    /\ convertedText = WorkbookText(ReportFile.sheets)
    /\ errorMessage = ""

\* C19: whenever a conversion is in flight, isProcessing is true.
C19_InFlightImpliesProcessing == inflight # {} => isProcessing

\* C20: a change event without a file changes no session field and starts no
\* conversion.
C20_NoFileIsNoOp ==
    [][HandleFileUploadNoFile =>
          /\ UNCHANGED session
          /\ inflight' = inflight
          /\ nextId' = nextId]_vars

\* the input was emptied while the first selected file was being converted
C20_Witness ==
    /\ nextId = 1
    /\ inflight # {}
    /\ inputValue = <<>>
    /\ fileName # <<>>
    /\ isProcessing

(***************************************************************************)
(* Reading a converted text back: its lines, and a line's fields.          *)
(***************************************************************************)
RECURSIVE Split(_, _)
\* the pieces of s between the occurrences of the character sep
Split(s, sep) ==
    IF \A i \in 1..Len(s) : s[i] # sep THEN <<s>>
    ELSE LET i == CHOOSE k \in 1..Len(s) :
                      s[k] = sep /\ \A m \in 1..(k - 1) : s[m] # sep
         IN  <<SubSeq(s, 1, i - 1)>> \o Split(SubSeq(s, i + 1, Len(s)), sep)

\* text is a sequence of lines, each ended by a newline
Terminated(text) == text = <<>> \/ text[Len(text)] = "\n"

\* the lines of a terminated text
Lines(text) ==
    LET pieces == Split(text, "\n") IN SubSeq(pieces, 1, Len(pieces) - 1)

\* line has the form "===== <name> ====="
IsHeaderForm(line) ==
    /\ Len(line) >= 12
    /\ SubSeq(line, 1, 6) = <<"=", "=", "=", "=", "=", " ">>
    /\ SubSeq(line, Len(line) - 5, Len(line)) = <<" ", "=", "=", "=", "=", "=">>

\* the name a line of header form carries
HeaderName(line) == SubSeq(line, 7, Len(line) - 6)

\* the positions of seq whose element is one of set, in increasing order
RECURSIVE PositionsFrom(_, _, _)
PositionsFrom(seq, set, i) ==
    IF i > Len(seq) THEN <<>>
    ELSE (IF seq[i] \in set THEN <<i>> ELSE <<>>) \o PositionsFrom(seq, set, i + 1)

\* exactly n lines of header form, the i-th carrying the name of the i-th sheet,
\* and every sheet's block ended by one blank line
ExactlyTheHeaders(sheets, text) ==
    LET lines == Lines(text)
        n == Len(sheets)
        at == PositionsFrom(lines, {l \in {lines[i] : i \in 1..Len(lines)} :
                                        IsHeaderForm(l)}, 1)
    IN  /\ Terminated(text)
        /\ Len(at) = n
        /\ \A i \in 1..n : HeaderName(lines[at[i]]) = sheets[i].name
        /\ \A i \in 2..n : lines[at[i] - 1] = <<>>
        /\ n > 0 => lines[Len(lines)] = <<>>
        /\ Cardinality({i \in 1..Len(lines) : lines[i] = <<>>}) = n

\* the text is n consecutive blocks, the i-th beginning with the header line of
\* the i-th sheet and ending with a blank line
BlocksInOrder(sheets, text) ==
    LET lines == Lines(text)
        n == Len(sheets)
    IN  /\ Terminated(text)
        /\ n = 0 => lines = <<>>
        /\ n > 0 =>
              \E start \in [1..n -> 1..Len(lines)] :
                  /\ start[1] = 1
                  /\ \A i \in 1..n :
                        /\ IsHeaderForm(lines[start[i]])
                        /\ HeaderName(lines[start[i]]) = sheets[i].name
                  /\ \A i \in 2..n :
                        start[i - 1] < start[i] - 1 /\ lines[start[i] - 1] = <<>>
                  /\ start[n] < Len(lines) /\ lines[Len(lines)] = <<>>

\* s holds "=====" or a line break
HoldsRunOrBreak(s) ==
    \/ \E i \in 1..Len(s) : s[i] = "\n"
    \/ \E i \in 1..(Len(s) - 4) : \A j \in i..(i + 4) : s[j] = "="

\* no sheet name holds a line break and no cell's string holds "=====" or a
\* line break
PlainWorkbook(sheets) ==
    \A k \in 1..Len(sheets) :
        /\ \A i \in 1..Len(sheets[k].name) : sheets[k].name[i] # "\n"
        /\ \A r \in 1..Len(sheets[k].rows) :
              \A j \in 1..Len(sheets[k].rows[r]) :
                  sheets[k].rows[r][j].t = "string"
                      => ~HoldsRunOrBreak(sheets[k].rows[r][j].v)

\* C13 as stated: the result holds exactly n lines of header form, the i-th
\* with the name of the i-th sheet, and each sheet block ends with a blank line.
C13_ExactlyNHeaders ==
    [][\A c \in inflight :
          Succeeds(c) => ExactlyTheHeaders(c.file.sheets, convertedText')]_vars

\* C13 amended: the result is n consecutive blocks in workbook order, the i-th
\* beginning with the header line of Si and ending with one blank line; its
\* lines of header form are exactly those n when no sheet name holds a line
\* break and no cell's string holds "=====" or a line break.
C13_BlocksInOrderAndHeadersIfPlain ==
    [][\A c \in inflight :
          Succeeds(c) =>
              /\ BlocksInOrder(c.file.sheets, convertedText')
              /\ PlainWorkbook(c.file.sheets)
                     => ExactlyTheHeaders(c.file.sheets, convertedText')]_vars

\* a workbook of two sheets has been converted
C13_Witness ==
    /\ inflight = {}
    /\ ~isProcessing
    /\ convertedText =
           <<"=", "=", "=", "=", "=", " ", "T", " ", "=", "=", "=", "=", "=", "\n",
             "a", "\n", "\n",
             "=", "=", "=", "=", "=", " ", "S", " ", "=", "=", "=", "=", "=", "\n",
             "\n">>

\* the cells that count as empty: absent, null, the empty string
EmptyCells == {Undefined, Null, Str(<<>>)}

\* some cell of row is not empty
HasContent(row) == \E i \in 1..Len(row) : row[i] \notin EmptyCells

\* the string representation of a drawn cell
CellString(cell) ==
    CASE cell \in {Undefined, Null} -> <<>>
      [] cell = Num(0) -> <<"0">>
      [] cell = Num(10) -> <<"1", "0">>
      [] cell = Bool(TRUE) -> <<"t", "r", "u", "e">>
      [] cell = Bool(FALSE) -> <<"f", "a", "l", "s", "e">>
      [] OTHER -> cell.v

\* line is row's cells, in column order, between single tabs
LineIsRow(line, row) ==
    LET fields == Split(line, "\t")
    IN  /\ Len(fields) = Len(row)
        /\ \A j \in 1..Len(row) : fields[j] = CellString(row[j])

RECURSIVE ExpectedItems(_)
\* what each line of the result stands for: per sheet a header, the rows with
\* content in row order, a blank line
ExpectedItems(sheets) ==
    IF sheets = <<>> THEN <<>>
    ELSE LET kept == SelectSeq(sheets[1].rows, HasContent)
         IN  <<[k |-> "header", row |-> <<>>]>>
                 \o [i \in 1..Len(kept) |-> [k |-> "row", row |-> kept[i]]]
                 \o <<[k |-> "blank", row |-> <<>>]>>
                 \o ExpectedItems(Tail(sheets))

\* C14: a row is left out of the result exactly when all its cells are absent,
\* null or the empty string, and the rows kept appear in their original order.
C14_RowsOmittedIffEmpty ==
    [][\A c \in inflight :
          Succeeds(c) =>
              LET lines == Lines(convertedText')
                  items == ExpectedItems(c.file.sheets)
              IN  /\ Len(lines) = Len(items)
                  /\ \A i \in 1..Len(items) :
                        /\ items[i].k = "blank" <=> lines[i] = <<>>
                        /\ items[i].k = "row" =>
                               Len(Split(lines[i], "\t")) = Len(items[i].row)
                        /\ (items[i].k = "row" /\ PlainWorkbook(c.file.sheets)) =>
                               Split(lines[i], "\t")[1] = CellString(items[i].row[1])]_vars

\* a sheet whose only row with content holds the number 0 was converted: that
\* row is kept
C14_Witness ==
    /\ inflight = {}
    /\ ~isProcessing
    /\ convertedText =
           <<"=", "=", "=", "=", "=", " ", "T", " ", "=", "=", "=", "=", "=", "\n",
             "0", "\n", "\n">>

\* C15: every kept row is one line, its cells in column order, an absent or
\* null cell as the empty string and any other cell as its string, joined by
\* single tabs and ended by a newline; the Sheet1 example converts as stated.
C15_RowRendering ==
    [][\A c \in inflight :
          Succeeds(c) =>
              LET lines == Lines(convertedText')
                  items == ExpectedItems(c.file.sheets)
              IN  /\ Terminated(convertedText')
                  /\ Len(lines) = Len(items)
                  /\ \A i \in 1..Len(items) :
                        items[i].k = "row" => LineIsRow(lines[i], items[i].row)
                  /\ c.file.sheets = TrailingDotFile.sheets =>
                        convertedText' =
                            <<"=", "=", "=", "=", "=", " ", "S", "h", "e", "e", "t", "1",
                              " ", "=", "=", "=", "=", "=", "\n",
                              "a", "\t", "b", "\n", "\n">>]_vars

\* a row of a number and a null cell was converted
C15_Witness ==
    /\ inflight = {}
    /\ ~isProcessing
    /\ convertedText =
           <<"=", "=", "=", "=", "=", " ", "S", " ", "=", "=", "=", "=", "=", "\n",
             "1", "0", "\t", "\n", "\n">>

\* the text of Report.xlsx
ReportText ==
    <<"=", "=", "=", "=", "=", " ", "S", " ", "=", "=", "=", "=", "=", "\n",
      "A", "\t", "B", "\n", "\n">>

\* the text of data.
TrailingDotText ==
    <<"=", "=", "=", "=", "=", " ", "S", "h", "e", "e", "t", "1",
      " ", "=", "=", "=", "=", "=", "\n", "a", "\t", "b", "\n", "\n">>

\* C16: the text a successful conversion stores is fixed by the file's content:
\* the same whatever the session state is and whatever ran before or meanwhile.
C16_ResultFixedByContent ==
    [][\A c \in inflight :
          Succeeds(c) =>
              /\ c.file = ReportFile => convertedText' = ReportText
              /\ c.file = TrailingDotFile => convertedText' = TrailingDotText]_vars

\* two conversions ran and a clipboard write failed meanwhile: the text stored
\* for data. is the same
C16_Witness ==
    /\ nextId = 2
    /\ inflight = {}
    /\ fileName = TrailingDotFile.name
    /\ convertedText = TrailingDotText
    /\ errorMessage = CopyFailedMessage

====
